---- MODULE Spec2Model ----
(***************************************************************************)
(* The manifest state engine of src/App.tsx: the history store (undo/redo  *)
(* over snapshots of passenger records), the sequential batch ingestion,   *)
(* the derived attribute calculator and the duplicate detector.            *)
(*                                                                         *)
(* JavaScript strings that the code inspects (trim, toUpperCase, split,    *)
(* parseInt) are sequences of one-character strings; the JavaScript value  *)
(* undefined of an optional field is Undef.  Strings the code only stores  *)
(* (status, fileName, errorMessage) are TLA+ strings.                      *)
(***************************************************************************)
EXTENDS Integers, Sequences, FiniteSets, TLC

VARIABLES
    history,          \* useState<HistoryState>: [past, present, future]
    status,           \* useState<ProcessingStatus>
    processedCount,   \* useState(0)
    totalCount,       \* useState(0)
    runs,             \* the processFiles invocations suspended at their await
    lastOp,           \* the handler that ran last
    nOps,             \* files selected, edits, deletes, clears, sorts and filters
    commitLog,        \* in a typing session, the present before each commit
    results,          \* what the files of the latest batch ended with, in order
    filters,          \* useState<FilterState>: [field, startDate, endDate]
    sortConfig        \* useState<SortConfig>: [key, order]

vars ==
    <<history, status, processedCount, totalCount, runs, lastOp, nOps, commitLog,
      results, filters, sortConfig>>

-----------------------------------------------------------------------------
(* Program constants.                                                      *)

\* src/App.tsx:98  .slice(-50)
HistoryDepth == 50

-----------------------------------------------------------------------------
(* Bounds of the exploration.                                              *)

\* ids Math.random() can return are drawn from 1..MaxIds
MaxIds == 2
\* Spec, the wide exploration from the initial state: at most MaxOps files
\* selected, edits, deletes and clears in all
MaxOps == 2
\* Spec and SpecDeep: a table cell is typed up to MaxLen characters long
MaxLen == 1
\* SpecTyping, one file and then a typing session of TypingLen characters
TypingLen == 52
\* SpecDeep, the exploration at the end of a session of DeepStart keys typed:
\* DeepOps more files, edits, deletes and clears,
DeepStart == 50
DeepOps == 1
\* and undo while fewer than DeepBack snapshots are in future
DeepBack == 2
\* SpecBatch, batches alone: at most MaxBatch files selected in all
MaxBatch == 3
\* SpecDetector: two files and at most MaxDetect - 2 edits of their records
MaxDetect == 4
\* SpecAttributes: one file and at most MaxAttr - 1 edits of its record
MaxAttr == 3
\* SpecEditor: one file and at most MaxEdits - 1 edits of its record
MaxEdits == 3
\* SpecView: two files and at most MaxView - 2 changes of the sort configuration
\* and the filter criteria
MaxView == 5

-----------------------------------------------------------------------------
(* JavaScript strings.                                                     *)

Undef == <<"undefined">>

\* JavaScript truthiness of an optional string
Truthy(s) == s # Undef /\ s # <<>>

\* a || b
OrElse(a, b) == IF Truthy(a) THEN a ELSE b

LowerCase == <<"a","b","c","d","e","f","g","h","i","j","k","l","m",
               "n","o","p","q","r","s","t","u","v","w","x","y","z">>
UpperCase == <<"A","B","C","D","E","F","G","H","I","J","K","L","M",
               "N","O","P","Q","R","S","T","U","V","W","X","Y","Z">>

UpperChar(c) ==
    IF \E i \in 1..26 : LowerCase[i] = c
    THEN UpperCase[CHOOSE i \in 1..26 : LowerCase[i] = c]
    ELSE c

\* String.prototype.toUpperCase
toUpperCase(s) == [i \in 1..Len(s) |-> UpperChar(s[i])]

IsSpace(c) == c = " "

RECURSIVE TrimStart(_)
TrimStart(s) ==
    IF s # <<>> /\ IsSpace(Head(s)) THEN TrimStart(Tail(s)) ELSE s

RECURSIVE TrimEnd(_)
TrimEnd(s) ==
    IF s # <<>> /\ IsSpace(s[Len(s)])
    THEN TrimEnd(SubSeq(s, 1, Len(s) - 1))
    ELSE s

\* String.prototype.trim
trim(s) == TrimEnd(TrimStart(s))

\* String.prototype.split(sep), sep one character: the parts between separators
RECURSIVE SplitFrom(_, _, _)
SplitFrom(s, sep, cur) ==
    IF s = <<>> THEN <<cur>>
    ELSE IF Head(s) = sep THEN <<cur>> \o SplitFrom(Tail(s), sep, <<>>)
    ELSE SplitFrom(Tail(s), sep, Append(cur, Head(s)))

split(s, sep) == SplitFrom(s, sep, <<>>)

Digits == <<"0","1","2","3","4","5","6","7","8","9">>

IsDigit(c) == \E i \in 1..10 : Digits[i] = c

DigitVal(c) == (CHOOSE i \in 1..10 : Digits[i] = c) - 1

RECURSIVE DigitPrefix(_, _, _)
DigitPrefix(s, acc, seen) ==
    IF s # <<>> /\ IsDigit(Head(s))
    THEN DigitPrefix(Tail(s), 10 * acc + DigitVal(Head(s)), TRUE)
    ELSE [nan |-> ~seen, v |-> acc]

\* parseInt of a string without leading white space: an optional sign, then
\* the decimal digits up to the first other character; NaN when there is none
SignedPrefix(t) ==
    LET p == DigitPrefix(IF t # <<>> /\ Head(t) \in {"-", "+"} THEN Tail(t) ELSE t,
                         0, FALSE)
    IN  [nan |-> p.nan, v |-> IF t # <<>> /\ Head(t) = "-" THEN 0 - p.v ELSE p.v]

parseInt(s) == SignedPrefix(TrimStart(s))

-----------------------------------------------------------------------------
(* JavaScript Date, local calendar fields only.                            *)

\* days since 1970-01-01 of the proleptic Gregorian date y-(m0+1)-d, m0 in
\* 0..11.  The year runs from March: yy is that year, mp the month from March.
DayOfEra(yoe, doy) == yoe * 365 + yoe \div 4 - yoe \div 100 + doy

DaysFromMarch(yy, mp, d) ==
    (yy \div 400) * 146097
        + DayOfEra(yy % 400, (153 * mp + 2) \div 5 + d - 1) - 719468

DaysFromCivil(y, m0, d) ==
    DaysFromMarch(IF m0 < 2 THEN y - 1 ELSE y, (m0 + 10) % 12, d)

\* and back: the calendar fields of the day z0 days after 1970-01-01
YearOfEra(doe) ==
    (doe - doe \div 1460 + doe \div 36524 - doe \div 146096) \div 365

DayOfYear(doe, yoe) == doe - (365 * yoe + yoe \div 4 - yoe \div 100)

CivilFromMarch(y0, doy, mp) ==
    [nan |-> FALSE,
     year |-> IF mp < 10 THEN y0 ELSE y0 + 1,
     month |-> IF mp < 10 THEN mp + 2 ELSE mp - 10,
     date |-> doy - (153 * mp + 2) \div 5 + 1]

CivilFromDayOfYear(y0, doy) == CivilFromMarch(y0, doy, (5 * doy + 2) \div 153)

CivilFromYearOfEra(era, doe, yoe) ==
    CivilFromDayOfYear(yoe + era * 400, DayOfYear(doe, yoe))

CivilFromDayOfEra(era, doe) == CivilFromYearOfEra(era, doe, YearOfEra(doe))

CivilFromDays(z0) ==
    CivilFromDayOfEra((z0 + 719468) \div 146097, (z0 + 719468) % 146097)

InvalidDate == [nan |-> TRUE, year |-> 0, month |-> 0, date |-> 0]

\* new Date(year, monthIndex, day) of numbers: a year 0..99 means 1900 + year,
\* months and days out of range roll over
DateOfNumbers(y, m, d) ==
    CivilFromDays(DaysFromCivil(
        (IF y >= 0 /\ y <= 99 THEN 1900 + y ELSE y) + m \div 12, m % 12, 1) + d - 1)

\* new Date(year, monthIndex, day): NaN arguments give an Invalid Date
NewDate(year, monthIndex, day) ==
    IF year.nan \/ monthIndex.nan \/ day.nan THEN InvalidDate
    ELSE DateOfNumbers(year.v, monthIndex.v, day.v)

\* the value of new Date() in the explored runs
Today == [nan |-> FALSE, year |-> 2025, month |-> 5, date |-> 15]

-----------------------------------------------------------------------------
(* Literals.                                                               *)

ADULT == <<"A","D","U","L","T">>
CHILD == <<"C","H","I","L","D">>
INFANT == <<"I","N","F","A","N","T">>
MR == <<"M","R">>
MRS == <<"M","R","S">>
MS == <<"M","S">>
MSTR == <<"M","S","T","R">>
MISS == <<"M","I","S","S">>
MALE == <<"M","A","L","E">>
FEMALE == <<"F","E","M","A","L","E">>

-----------------------------------------------------------------------------
(* Derived attribute calculator.                                           *)

\* what deriveAttributes returns without a usable date of birth
NoBirthDate == [title |-> <<>>, passengerType |-> ADULT]

\* month - 1
MinusOne(n) == [nan |-> n.nan, v |-> n.v - 1]

\* today.getFullYear() - birthDate.getFullYear(), less one before the birthday
AgeOn(today, birthDate) ==
    IF \/ today.month - birthDate.month < 0
       \/ /\ today.month - birthDate.month = 0
          /\ today.date < birthDate.date
    THEN today.year - birthDate.year - 1
    ELSE today.year - birthDate.year

\* the thresholds; nan says that age is NaN, and every comparison with NaN is
\* false
TitleAndType(nan, age, isMale) ==
    [title |-> IF ~nan /\ age < 2
               THEN (IF isMale THEN MSTR ELSE MISS)
               ELSE IF isMale THEN MR
               ELSE IF ~nan /\ age > 30 THEN MRS ELSE MS,
     passengerType |-> IF ~nan /\ age < 2 THEN INFANT
                       ELSE IF ~nan /\ age < 12 THEN CHILD
                       ELSE ADULT]

AttributesOf(birthDate, gender, today) ==
    TitleAndType(birthDate.nan \/ today.nan, AgeOn(today, birthDate),
                 gender # Undef /\ toUpperCase(gender) = MALE)

\* A slip: parts.length < 3.
AttributesOfThreeOrMore(parts, gender, today) ==
    IF Len(parts) < 3 THEN NoBirthDate
    ELSE AttributesOf(NewDate(parseInt(parts[3]), MinusOne(parseInt(parts[2])),
                              parseInt(parts[1])),
                      gender, today)

\* const [day, month, year] = parts
AttributesOfParts(parts, gender, today) ==
    IF Len(parts) # 3 THEN NoBirthDate
    ELSE AttributesOf(NewDate(parseInt(parts[3]), MinusOne(parseInt(parts[2])),
                              parseInt(parts[1])),
                      gender, today)

deriveAttributes(dob, gender, today) ==
    IF ~Truthy(dob) THEN NoBirthDate
    ELSE AttributesOfParts(split(dob, "/"), gender, today)

-----------------------------------------------------------------------------
(* Duplicate detector.                                                     *)

\* A slip: the candidate's values compared without trim().
checkIsDuplicateUntrimmed(details, currentId, list) ==
    IF ~Truthy(details.passportNumber)
       /\ (~Truthy(details.firstName) \/ ~Truthy(details.lastName))
    THEN FALSE
    ELSE \E k \in 1..Len(list) :
            LET p == list[k] IN
            /\ p.id # currentId
            /\ p.status = "completed"
            /\ \/ /\ Truthy(details.passportNumber)
                  /\ Truthy(p.passportNumber)
                  /\ toUpperCase(details.passportNumber)
                        = toUpperCase(trim(p.passportNumber))
               \/ /\ Truthy(details.firstName) /\ Truthy(details.lastName)
                  /\ Truthy(p.firstName) /\ Truthy(p.lastName)
                  /\ toUpperCase(details.firstName)
                        = toUpperCase(trim(p.firstName))
                  /\ toUpperCase(details.lastName)
                        = toUpperCase(trim(p.lastName))

\* A slip: the test of the status left out.
checkIsDuplicateAnyStatus(details, currentId, list) ==
    IF ~Truthy(details.passportNumber)
       /\ (~Truthy(details.firstName) \/ ~Truthy(details.lastName))
    THEN FALSE
    ELSE \E k \in 1..Len(list) :
            LET p == list[k] IN
            /\ p.id # currentId
            /\ \/ /\ Truthy(details.passportNumber)
                  /\ Truthy(p.passportNumber)
                  /\ toUpperCase(trim(details.passportNumber))
                        = toUpperCase(trim(p.passportNumber))
               \/ /\ Truthy(details.firstName) /\ Truthy(details.lastName)
                  /\ Truthy(p.firstName) /\ Truthy(p.lastName)
                  /\ toUpperCase(trim(details.firstName))
                        = toUpperCase(trim(p.firstName))
                  /\ toUpperCase(trim(details.lastName))
                        = toUpperCase(trim(p.lastName))


\* checkIsDuplicate: list.some(...) after the early return
checkIsDuplicate(details, currentId, list) ==
    IF ~Truthy(details.passportNumber)
       /\ (~Truthy(details.firstName) \/ ~Truthy(details.lastName))
    THEN FALSE
    ELSE \E k \in 1..Len(list) :
            LET p == list[k] IN
            /\ p.id # currentId
            /\ p.status = "completed"
            /\ \/ /\ Truthy(details.passportNumber)
                  /\ Truthy(p.passportNumber)
                  /\ toUpperCase(trim(details.passportNumber))
                        = toUpperCase(trim(p.passportNumber))
               \/ /\ Truthy(details.firstName) /\ Truthy(details.lastName)
                  /\ Truthy(p.firstName) /\ Truthy(p.lastName)
                  /\ toUpperCase(trim(details.firstName))
                        = toUpperCase(trim(p.firstName))
                  /\ toUpperCase(trim(details.lastName))
                        = toUpperCase(trim(p.lastName))

-----------------------------------------------------------------------------
(* Passenger records.                                                      *)

\* the placeholder of src/App.tsx:175-182: the other fields are absent
Placeholder(id, name) ==
    [id |-> id, fileName |-> name,
     firstName |-> <<>>, lastName |-> <<>>, passportNumber |-> <<>>,
     status |-> "processing",
     passengerType |-> Undef, title |-> Undef, nationality |-> Undef,
     gender |-> Undef, dateOfBirth |-> Undef, issueDate |-> Undef,
     expiryDate |-> Undef, errorMessage |-> "undefined",
     isDuplicate |-> "undefined"]

BoolStr(b) == IF b THEN "true" ELSE "false"

\* { ...p, [field]: value }
SetField(p, field, value) ==
    CASE field = "passengerType" -> [p EXCEPT !.passengerType = value]
      [] field = "title" -> [p EXCEPT !.title = value]
      [] field = "firstName" -> [p EXCEPT !.firstName = value]
      [] field = "lastName" -> [p EXCEPT !.lastName = value]
      [] field = "passportNumber" -> [p EXCEPT !.passportNumber = value]
      [] field = "nationality" -> [p EXCEPT !.nationality = value]
      [] field = "gender" -> [p EXCEPT !.gender = value]
      [] field = "dateOfBirth" -> [p EXCEPT !.dateOfBirth = value]
      [] field = "issueDate" -> [p EXCEPT !.issueDate = value]
      [] field = "expiryDate" -> [p EXCEPT !.expiryDate = value]

\* p[field]
GetField(p, field) ==
    CASE field = "passengerType" -> p.passengerType
      [] field = "title" -> p.title
      [] field = "firstName" -> p.firstName
      [] field = "lastName" -> p.lastName
      [] field = "passportNumber" -> p.passportNumber
      [] field = "nationality" -> p.nationality
      [] field = "gender" -> p.gender
      [] field = "dateOfBirth" -> p.dateOfBirth
      [] field = "issueDate" -> p.issueDate
      [] field = "expiryDate" -> p.expiryDate

\* list.map(p => p.id === id ? f(p) : p), with mapped[k] = f(list[k])
MapById(list, id, mapped) ==
    [k \in 1..Len(list) |-> IF list[k].id = id THEN mapped[k] ELSE list[k]]

\* list.filter(p => p.id !== id)
RECURSIVE FilterOutId(_, _)
FilterOutId(list, id) ==
    IF list = <<>> THEN <<>>
    ELSE IF Head(list).id = id THEN FilterOutId(Tail(list), id)
    ELSE <<Head(list)>> \o FilterOutId(Tail(list), id)

HasId(list, id) == \E k \in 1..Len(list) : list[k].id = id

\* list.find(p => p.id === id), when there is one
FindById(list, id) ==
    list[CHOOSE k \in 1..Len(list) :
            list[k].id = id /\ \A j \in 1..(k - 1) : list[j].id # id]

-----------------------------------------------------------------------------
(* History store.                                                          *)

\* A slip: slice(0, n), which keeps the oldest entries.
SliceFirst(s, n) ==
    IF Len(s) <= n THEN s ELSE SubSeq(s, 1, n)

\* Array.prototype.slice(-n)
SliceLast(s, n) ==
    IF Len(s) <= n THEN s ELSE SubSeq(s, Len(s) - n + 1, Len(s))

\* Slips in the commit: future kept (shouldClearFuture taken as false), the next
\* snapshot pushed onto past instead of the present one, and past not trimmed.
setPassportsWithHistoryKeepingFuture(prev, nextPresent, identical) ==
    IF identical THEN prev
    ELSE [past |-> SliceLast(Append(prev.past, prev.present), HistoryDepth),
          present |-> nextPresent,
          future |-> prev.future]

setPassportsWithHistoryPushingNext(prev, nextPresent, identical) ==
    IF identical THEN prev
    ELSE [past |-> SliceLast(Append(prev.past, nextPresent), HistoryDepth),
          present |-> nextPresent,
          future |-> <<>>]

setPassportsWithHistoryUntrimmed(prev, nextPresent, identical) ==
    IF identical THEN prev
    ELSE [past |-> Append(prev.past, prev.present),
          present |-> nextPresent,
          future |-> <<>>]

\* The updater of setPassportsWithHistory, shouldClearFuture left at its default.
\* identical stands for nextPresent === prev.present: arrays are compared by
\* reference, and every caller says whether its array is prev.present itself.
setPassportsWithHistory(prev, nextPresent, identical) ==
    IF identical THEN prev
    ELSE [past |-> SliceLast(Append(prev.past, prev.present), HistoryDepth),
          present |-> nextPresent,
          future |-> <<>>]

\* Slips in undo: the old present put behind future instead of in front of it,
\* and the check for an empty past left out (past[-1] is then undefined, shown
\* as the empty list).
undoBehindFuture(prev) ==
    IF Len(prev.past) = 0 THEN prev
    ELSE [past |-> SubSeq(prev.past, 1, Len(prev.past) - 1),
          present |-> prev.past[Len(prev.past)],
          future |-> Append(prev.future, prev.present)]

undoUnchecked(prev) ==
    [past |-> SubSeq(prev.past, 1, Len(prev.past) - 1),
     present |-> IF Len(prev.past) = 0 THEN <<>> ELSE prev.past[Len(prev.past)],
     future |-> <<prev.present>> \o prev.future]

undo(prev) ==
    IF Len(prev.past) = 0 THEN prev
    ELSE [past |-> SubSeq(prev.past, 1, Len(prev.past) - 1),
          present |-> prev.past[Len(prev.past)],
          future |-> <<prev.present>> \o prev.future]

\* A slip in redo: the present it leaves not put onto past.
redoWithoutPush(prev) ==
    IF Len(prev.future) = 0 THEN prev
    ELSE [past |-> prev.past,
          present |-> prev.future[1],
          future |-> Tail(prev.future)]

\* A slip in redo: the snapshot taken from the far end of future.
redoFromEnd(prev) ==
    IF Len(prev.future) = 0 THEN prev
    ELSE [past |-> Append(prev.past, prev.present),
          present |-> prev.future[Len(prev.future)],
          future |-> SubSeq(prev.future, 1, Len(prev.future) - 1)]

redo(prev) ==
    IF Len(prev.future) = 0 THEN prev
    ELSE [past |-> Append(prev.past, prev.present),
          present |-> prev.future[1],
          future |-> Tail(prev.future)]

-----------------------------------------------------------------------------
(* The updaters of the manifest.                                           *)

\* A slip: the derived title preferred to the one the service read.
finalDetailsOfDerivedTitle(details, today) ==
    LET derived == deriveAttributes(OrElse(details.dateOfBirth, <<>>),
                                    OrElse(details.gender, <<>>), today)
    IN  [details EXCEPT !.title = OrElse(derived.title, details.title)]
            @@ [passengerType |-> derived.passengerType]

\* processFiles, the success branch: finalDetails and the setHistory updater
finalDetailsOf(details, today) ==
    LET derived == deriveAttributes(OrElse(details.dateOfBirth, <<>>),
                                    OrElse(details.gender, <<>>), today)
    IN  [details EXCEPT !.title = OrElse(details.title, derived.title)]
            @@ [passengerType |-> derived.passengerType]

\* nextPresent of the success branch
nextPresentOf(prev, placeholderId, details, today) ==
    LET fd == finalDetailsOf(details, today)
        dup == checkIsDuplicate(fd, placeholderId, prev.present)
        merged(p) ==
            [p EXCEPT !.title = fd.title,
                      !.firstName = fd.firstName,
                      !.lastName = fd.lastName,
                      !.passportNumber = fd.passportNumber,
                      !.nationality = fd.nationality,
                      !.gender = fd.gender,
                      !.dateOfBirth = fd.dateOfBirth,
                      !.issueDate = fd.issueDate,
                      !.expiryDate = fd.expiryDate,
                      !.passengerType = fd.passengerType,
                      !.status = "completed",
                      !.isDuplicate = BoolStr(dup)]
    IN  MapById(prev.present, placeholderId,
                [k \in 1..Len(prev.present) |-> merged(prev.present[k])])

\* A slip: the result of a file handed to setPassportsWithHistory.
applySuccessCommitted(prev, placeholderId, details, today) ==
    setPassportsWithHistory(
        prev, nextPresentOf(prev, placeholderId, details, today), FALSE)

\* return { ...prev, present: nextPresent }
applySuccess(prev, placeholderId, details, today) ==
    [prev EXCEPT !.present = nextPresentOf(prev, placeholderId, details, today)]

\* A slip: the record marked in place, p.status = 'error', instead of copied;
\* the snapshots of past and future hold the same object and change with it.
applyFailureInPlace(prev, placeholderId, message) ==
    LET failed(p) == [p EXCEPT !.status = "error", !.errorMessage = message]
        marked(list) == MapById(list, placeholderId,
                                [k \in 1..Len(list) |-> failed(list[k])])
    IN  [past |-> [k \in 1..Len(prev.past) |-> marked(prev.past[k])],
         present |-> marked(prev.present),
         future |-> [k \in 1..Len(prev.future) |-> marked(prev.future[k])]]

\* A slip: the failed record put back when the present has lost its placeholder.
applyFailureOrInsert(prev, placeholderId, message) ==
    LET failed(p) == [p EXCEPT !.status = "error", !.errorMessage = message]
    IN  IF HasId(prev.present, placeholderId)
        THEN [prev EXCEPT !.present =
                  MapById(prev.present, placeholderId,
                          [k \in 1..Len(prev.present) |-> failed(prev.present[k])])]
        ELSE [prev EXCEPT !.present =
                  <<failed(Placeholder(placeholderId, "a.jpg"))>>
                      \o prev.present]

\* processFiles, the catch branch
applyFailure(prev, placeholderId, message) ==
    LET failed(p) == [p EXCEPT !.status = "error", !.errorMessage = message]
    IN  [prev EXCEPT !.present =
                MapById(prev.present, placeholderId,
                        [k \in 1..Len(prev.present) |-> failed(prev.present[k])])]

\* A slip: a title the record already has kept when the attributes are derived.
updatedListOfKeepingTitle(prev, id, field, value, today) ==
    LET upd(p) ==
            LET updated == SetField(p, field, value) IN
            IF field = "dateOfBirth" \/ field = "gender"
            THEN LET derived ==
                        deriveAttributes(OrElse(updated.dateOfBirth, <<>>),
                                         OrElse(updated.gender, <<>>), today)
                 IN  [updated EXCEPT !.passengerType = derived.passengerType,
                                     !.title = OrElse(updated.title, derived.title)]
            ELSE updated
        updatedList == MapById(prev, id, [k \in 1..Len(prev) |-> upd(prev[k])])
    IN  IF HasId(updatedList, id)
           /\ FindById(updatedList, id).status = "completed"
        THEN LET isDup == checkIsDuplicate(FindById(updatedList, id), id,
                                           updatedList)
                 flag(p) == [p EXCEPT !.isDuplicate = BoolStr(isDup)]
             IN  MapById(updatedList, id,
                         [k \in 1..Len(updatedList) |-> flag(updatedList[k])])
        ELSE updatedList

\* the updater updatePassport hands to setPassportsWithHistory
updatedListOf(prev, id, field, value, today) ==
    LET upd(p) ==
            LET updated == SetField(p, field, value) IN
            IF field = "dateOfBirth" \/ field = "gender"
            THEN LET derived ==
                        deriveAttributes(OrElse(updated.dateOfBirth, <<>>),
                                         OrElse(updated.gender, <<>>), today)
                 IN  [updated EXCEPT !.passengerType = derived.passengerType,
                                     !.title = derived.title]
            ELSE updated
        updatedList == MapById(prev, id, [k \in 1..Len(prev) |-> upd(prev[k])])
    IN  IF HasId(updatedList, id)
           /\ FindById(updatedList, id).status = "completed"
        THEN LET isDup == checkIsDuplicate(FindById(updatedList, id), id,
                                           updatedList)
                 flag(p) == [p EXCEPT !.isDuplicate = BoolStr(isDup)]
             IN  MapById(updatedList, id,
                         [k \in 1..Len(updatedList) |-> flag(updatedList[k])])
        ELSE updatedList

-----------------------------------------------------------------------------
(* Inputs.                                                                 *)

\* Math.random().toString(36).substring(7): some string, nothing excludes one
\* drawn before
Ids == 1..MaxIds

FileNameSeq == <<"a.jpg", "b.jpg", "c.jpg", "d.jpg">>

\* a selection of n files
FileList(n) == [k \in 1..n |-> FileNameSeq[k]]

NoDetails ==
    [title |-> Undef, firstName |-> Undef, lastName |-> Undef,
     passportNumber |-> Undef, nationality |-> Undef, gender |-> Undef,
     dateOfBirth |-> Undef, issueDate |-> Undef, expiryDate |-> Undef]

\* what extractPassportDetails resolves with: the parsed answer, six of its
\* fields upper-cased, every field possibly absent
DetailsA ==
    [NoDetails EXCEPT !.firstName = <<"A">>, !.lastName = <<"B">>,
                      !.passportNumber = <<"P", "1">>, !.gender = MALE,
                      !.dateOfBirth = <<"0","1","/","0","1","/","2","0","2","3">>]

DetailsSet == {DetailsA, NoDetails}

\* an answer with a title, and with the names of DetailsA
DetailsB ==
    [NoDetails EXCEPT !.title = MRS, !.firstName = <<"A">>, !.lastName = <<"B">>,
                      !.passportNumber = <<"P", "2">>, !.gender = FEMALE,
                      !.dateOfBirth = <<"1","5","/","0","6","/","2","0","1","3">>]

BatchDetails == {DetailsA, DetailsB, NoDetails}

\* the message of the Error extractPassportDetails throws
GeminiMessage == "Unable to read passport. Improve image quality and re-upload."

\* a rejection of fileToBase64 carries the reader's event, which has no message
Messages == {GeminiMessage, "undefined"}

\* what the detail editor can hand to updatePassport: the field and the raw value
EditorInputs == {<<"passportNumber", <<"P", "1">>>>, <<"gender", FEMALE>>}

\* values the detail editor can hand over for the fields the duplicate detector
\* reads: emptied, blank, and in another case or padded with blanks
DetectorInputs ==
    {<<"passportNumber", <<>>>>, <<"passportNumber", <<" ">>>>,
     <<"passportNumber", <<"p", "1", " ">>>>,
     <<"firstName", <<>>>>, <<"firstName", <<" ", "a">>>>,
     <<"lastName", <<>>>>}

\* dates of birth typed or pasted into the detail editor: around the second,
\* the twelfth and the thirtieth birthday on Today, a year of two digits, a day
\* past the end of its month, strings of one, two and four components, and one
\* of three components that are no numbers
DobInputs ==
    {<<>>,
     <<"a", "/", "b", "/", "c">>,
     <<"1", "5", "/", "0", "6", "/", "2", "0", "2", "3">>,
     <<"1", "6", "/", "0", "6", "/", "2", "0", "2", "3">>,
     <<"1", "5", "/", "0", "6", "/", "2", "0", "1", "3">>,
     <<"1", "6", "/", "0", "6", "/", "2", "0", "1", "3">>,
     <<"1", "5", "/", "0", "6", "/", "1", "9", "9", "4">>,
     <<"1", "6", "/", "0", "6", "/", "1", "9", "9", "4">>,
     <<"0", "1", "/", "0", "1", "/", "9", "9">>,
     <<"4", "7", "/", "0", "5", "/", "2", "0", "2", "3">>,
     <<"2", "0", "2", "3">>,
     <<"0", "1", "/", "2", "0", "2", "3">>,
     <<"1", "/", "2", "/", "3", "/", "4">>}

\* the detail editor's date of birth is a text input, its gender a select
AttributeInputs ==
    {<<"dateOfBirth", dob>> : dob \in DobInputs}
        \cup {<<"gender", MALE>>, <<"gender", FEMALE>>}

\* what the detail editor hands over as it stands: an option of a select, or the
\* text of an input, in whatever case it was typed or pasted
EditorFieldInputs ==
    {<<"title", MSTR>>, <<"passengerType", INFANT>>,
     <<"firstName", <<"a">>>>, <<"lastName", <<>>>>,
     <<"passportNumber", <<"p", "1">>>>,
     <<"gender", MALE>>, <<"gender", FEMALE>>,
     <<"dateOfBirth", <<"1", "5", "/", "0", "6", "/", "1", "9", "9", "4">>>>,
     <<"dateOfBirth", <<>>>>}

\* a table cell typed into in SpecEditor
EditorTypedFields == {"firstName"}

\* answers that differ in what the view sorts and filters by: an expiry date on
\* the first and on the last day of 2025, and one of three parts that are no
\* numbers
DetailsZed ==
    [NoDetails EXCEPT !.firstName = <<"A">>, !.lastName = <<"Z">>,
                      !.expiryDate = <<"0", "1", "/", "0", "1", "/", "2", "0", "2", "5">>,
                      !.dateOfBirth = <<"3", "1", "/", "1", "2", "/", "2", "0", "2", "5">>]

DetailsAmy ==
    [NoDetails EXCEPT !.firstName = <<"A">>, !.lastName = <<"A">>,
                      !.expiryDate = <<"3", "1", "/", "1", "2", "/", "2", "0", "2", "5">>]

DetailsMid ==
    [NoDetails EXCEPT !.firstName = <<"A">>, !.lastName = <<"M">>,
                      !.expiryDate = <<"a", "/", "b", "/", "c">>]

ViewDetails == {DetailsZed, DetailsAmy, DetailsMid, NoDetails}

\* the column headers clicked, the criteria chosen and the values of the two
\* date inputs in SpecView
SortKeys == {"lastName", "expiryDate"}

FilterFields == {"expiryDate", "dateOfBirth"}

DateInputValues ==
    {<<>>, <<"2", "0", "2", "5", "-", "0", "1", "-", "0", "1">>, <<"2", "0", "2", "5", "-", "1", "2", "-", "3", "1">>}

\* local clocks behind UTC, on UTC and ahead of UTC, in minutes
TimeZoneOffsets == {-300, 0, 330}

\* the table cells whose value the table upper-cases, and the keys typed
TypedFields == {"nationality"}

\* ops: the files selected, edits, deletes and clears explored
\* log: whether commitLog is kept
\* back: undo is explored while future holds fewer snapshots than this; future
\* never holds more than HistoryDepth
\* keys, len: the keys typed into a table cell, and how long its value gets
Wide ==
    [ops |-> MaxOps, back |-> HistoryDepth + 1,
     keys |-> {"a", "Backspace"}, len |-> MaxLen, log |-> FALSE]

Typing ==
    [ops |-> 1 + TypingLen, back |-> 0, keys |-> {"a"}, len |-> TypingLen,
     log |-> TRUE]

Batch ==
    [ops |-> MaxBatch, back |-> 0, keys |-> {}, len |-> 0, log |-> FALSE]

Detect ==
    [ops |-> MaxDetect, back |-> 0, keys |-> {}, len |-> 0, log |-> FALSE]

Attr ==
    [ops |-> MaxAttr, back |-> 0, keys |-> {}, len |-> 0, log |-> FALSE]

Editing ==
    [ops |-> MaxEdits, back |-> 0, keys |-> {"a", "Backspace"}, len |-> 2,
     log |-> FALSE]

Viewing ==
    [ops |-> MaxView, back |-> 0, keys |-> {}, len |-> 0, log |-> FALSE]

Deep ==
    [ops |-> 1 + DeepStart + DeepOps, back |-> DeepBack,
     keys |-> {"a", "Backspace"}, len |-> MaxLen, log |-> FALSE]

-----------------------------------------------------------------------------
(* The view: filteredAndSortedPassports.                                   *)

\* the characters of the explored strings, in the order of their code units
CharOrder ==
    <<" ", "-", "/">> \o Digits \o UpperCase \o LowerCase

CharCode(c) == CHOOSE i \in 1..Len(CharOrder) : CharOrder[i] = c

\* strA < strB of two strings
RECURSIVE StringLess(_, _)
StringLess(strA, strB) ==
    IF strB = <<>> THEN FALSE
    ELSE IF strA = <<>> THEN TRUE
    ELSE IF Head(strA) = Head(strB) THEN StringLess(Tail(strA), Tail(strB))
    ELSE CharCode(Head(strA)) < CharCode(Head(strB))

\* String(a[key] || '').toUpperCase()
SortString(a, key) == toUpperCase(OrElse(GetField(a, key), <<>>))

\* the comparator handed to sort
CompareStrings(strA, strB, order) ==
    IF StringLess(strA, strB) THEN (IF order = "asc" THEN -1 ELSE 1)
    ELSE IF StringLess(strB, strA) THEN (IF order = "asc" THEN 1 ELSE -1)
    ELSE 0

Compare(a, b, config) ==
    CompareStrings(SortString(a, config.key), SortString(b, config.key),
                   config.order)

\* A slip: an element put in front of the elements it compares equal to.
RECURSIVE InsertBeforeEquals(_, _, _)
InsertBeforeEquals(sorted, x, config) ==
    IF sorted = <<>> THEN <<x>>
    ELSE IF Compare(Head(sorted), x, config) < 0
    THEN <<Head(sorted)>> \o InsertBeforeEquals(Tail(sorted), x, config)
    ELSE <<x>> \o sorted

\* Array.prototype.sort is stable: an element goes behind the elements it does
\* not precede
RECURSIVE InsertSorted(_, _, _)
InsertSorted(sorted, x, config) ==
    IF sorted = <<>> THEN <<x>>
    ELSE IF Compare(Head(sorted), x, config) <= 0
    THEN <<Head(sorted)>> \o InsertSorted(Tail(sorted), x, config)
    ELSE <<x>> \o sorted

RECURSIVE SortInto(_, _, _)
SortInto(sorted, rest, config) ==
    IF rest = <<>> THEN sorted
    ELSE SortInto(InsertSorted(sorted, Head(rest), config), Tail(rest), config)

\* result.sort(...)
sort(result, config) == SortInto(<<>>, result, config)

\* Instants are minutes since 1970-01-01T00:00Z; offset is the minutes the local
\* clock is ahead of UTC.  The 59 seconds of setHours(23, 59, 59) never decide
\* a comparison with a midnight and are left out.
MinutesPerDay == 1440

NaNTime == [nan |-> TRUE, t |-> 0]

\* the instant of a Date built from local calendar fields
TimeOfLocal(date, offset) ==
    [nan |-> date.nan,
     t |-> DaysFromCivil(date.year, date.month, date.date) * MinutesPerDay
               - offset]

IsDigits(part) == part # <<>> /\ \A k \in 1..Len(part) : IsDigit(part[k])

\* new Date("YYYY-MM-DD"): a date-only string is midnight UTC of that day
TimeOfDateParts(parts) ==
    IF Len(parts) = 3 /\ \A k \in 1..3 : IsDigits(parts[k])
    THEN [nan |-> FALSE,
          t |-> DaysFromCivil(parseInt(parts[1]).v, parseInt(parts[2]).v - 1,
                              parseInt(parts[3]).v) * MinutesPerDay]
    ELSE NaNTime

TimeOfString(value) == TimeOfDateParts(split(value, "-"))

\* end.setHours(23, 59, 59): the time of day set on the local day of end
setHours(end, offset) ==
    [nan |-> end.nan,
     t |-> ((end.t + offset) \div MinutesPerDay) * MinutesPerDay
               + 23 * 60 + 59 - offset]

\* a < b of two Dates: false when either is an Invalid Date
Earlier(a, b) == ~a.nan /\ ~b.nan /\ a.t < b.t

\* the two tests of the filter on pDate
InRange(pDate, criteria, offset) ==
    /\ ~(Truthy(criteria.startDate)
         /\ Earlier(pDate, TimeOfString(criteria.startDate)))
    /\ ~(Truthy(criteria.endDate)
         /\ Earlier(setHours(TimeOfString(criteria.endDate), offset), pDate))

RetainedParts(parts, criteria, offset) ==
    IF Len(parts) # 3 THEN FALSE
    ELSE InRange(TimeOfLocal(NewDate(parseInt(parts[3]),
                                     MinusOne(parseInt(parts[2])),
                                     parseInt(parts[1])), offset),
                 criteria, offset)

\* the predicate of result.filter(...)
Retained(p, criteria, offset) ==
    IF ~Truthy(GetField(p, criteria.field)) THEN FALSE
    ELSE RetainedParts(split(GetField(p, criteria.field), "/"), criteria, offset)

RECURSIVE FilterRetained(_, _, _)
FilterRetained(list, criteria, offset) ==
    IF list = <<>> THEN <<>>
    ELSE IF Retained(Head(list), criteria, offset)
    THEN <<Head(list)>> \o FilterRetained(Tail(list), criteria, offset)
    ELSE FilterRetained(Tail(list), criteria, offset)

\* if (filters.startDate || filters.endDate)
FilterActive(criteria) == Truthy(criteria.startDate) \/ Truthy(criteria.endDate)

Filtered(passports, criteria, offset) ==
    IF FilterActive(criteria) THEN FilterRetained(passports, criteria, offset)
    ELSE passports

\* the memoised view, computed from a copy of passports
filteredAndSortedPassports(passports, criteria, config, offset) ==
    IF config.key # "null"
    THEN sort(Filtered(passports, criteria, offset), config)
    ELSE Filtered(passports, criteria, offset)

\* useState<FilterState>, and the value "Reset All Filters" sets
NoFilters ==
    [field |-> "expiryDate", startDate |-> <<>>, endDate |-> <<>>]

\* A slip: the order flipped whatever key is clicked.
sortConfigFlipped(prev, key) ==
    [key |-> key, order |-> IF prev.order = "asc" THEN "desc" ELSE "asc"]

\* the updater of handleSort
sortConfigAfter(prev, key) ==
    [key |-> key,
     order |-> IF prev.key = key /\ prev.order = "asc" THEN "desc" ELSE "asc"]

-----------------------------------------------------------------------------
(* The state after construction.                                            *)

Init ==
    /\ history = [past |-> <<>>, present |-> <<>>, future |-> <<>>]
    /\ status = "IDLE"
    /\ processedCount = 0
    /\ totalCount = 0
    /\ runs = <<>>
    /\ lastOp = "init"
    /\ nOps = 0
    /\ commitLog = <<>>
    /\ results = <<>>
    /\ filters = NoFilters
    /\ sortConfig = [key |-> "lastName", order |-> "asc"]

-----------------------------------------------------------------------------
(* Handlers.                                                               *)

\* a commit of the present is noted
Logged(B) ==
    commitLog' = IF B.log THEN Append(commitLog, history.present) ELSE commitLog

\* A slip: the "+" button never disabled.
CanAlwaysSelectFiles == TRUE

\* the "+" button is disabled while status is PROCESSING, and it is the only
\* way to the file input
CanSelectFiles == status = "IDLE"

\* A slip: the placeholders put behind the records instead of in front.
AppendPlaceholders(placeholders, prev) == prev \o placeholders

\* prev => [...placeholders, ...prev]
PrependPlaceholders(placeholders, prev) == placeholders \o prev

\* processFiles with an empty selection returns at once
ProcessNoFiles ==
    /\ CanSelectFiles
    /\ lastOp' = "ingestEmpty"
    /\ UNCHANGED <<history, status, processedCount, totalCount, runs, nOps,
                   commitLog, results, filters,
                   sortConfig>>

\* processFiles up to its first await: the counters, the placeholders committed
\* as one batch, and the call for the first file issued
ProcessFiles(n, ids, B) ==
    /\ CanSelectFiles
    /\ nOps + n <= B.ops
    /\ LET fileArray == FileList(n)
           placeholders == [k \in 1..n |-> Placeholder(ids[k], fileArray[k])]
       IN  /\ totalCount' = Len(fileArray)
           /\ processedCount' = 0
           /\ status' = "PROCESSING"
           /\ history' = setPassportsWithHistory(
                             history,
                             PrependPlaceholders(placeholders, history.present),
                             FALSE)
           /\ runs' = Append(runs, [placeholders |-> ids, i |-> 1])
    /\ lastOp' = "ingest"
    /\ nOps' = nOps + n
    /\ results' = <<>>
    /\ UNCHANGED <<filters, sortConfig>>
    /\ Logged(B)

\* A slip: setProcessedCount(i).
ProcessedBefore(i) == i - 1

\* setProcessedCount(i + 1), the files counted from 1 here
ProcessedAfter(i) == i

\* A slip: setStatus(IDLE) inside the loop, after every file.
AfterFileIdle(r, h) ==
    /\ history' = h
    /\ processedCount' = ProcessedAfter(runs[r].i)
    /\ IF runs[r].i < Len(runs[r].placeholders)
       THEN runs' = [runs EXCEPT ![r].i = @ + 1]
       ELSE runs' = [k \in 1..(Len(runs) - 1) |->
                        IF k < r THEN runs[k] ELSE runs[k + 1]]
    /\ status' = "IDLE"
    /\ UNCHANGED <<totalCount, nOps, commitLog, filters, sortConfig>>

\* processFiles from the await of file i to the await of file i + 1, or to its
\* end: the result applied, processedCount set, and then either the next call
\* issued or the status back to IDLE
AfterFile(r, h) ==
    /\ history' = h
    /\ processedCount' = ProcessedAfter(runs[r].i)
    /\ IF runs[r].i < Len(runs[r].placeholders)
       THEN /\ runs' = [runs EXCEPT ![r].i = @ + 1]
            /\ status' = status
       ELSE /\ runs' = [k \in 1..(Len(runs) - 1) |->
                            IF k < r THEN runs[k] ELSE runs[k + 1]]
            /\ status' = "IDLE"
    /\ UNCHANGED <<totalCount, nOps, commitLog, filters, sortConfig>>

ExtractionSucceeds(r, details) ==
    /\ r \in 1..Len(runs)
    /\ LET placeholderId == runs[r].placeholders[runs[r].i]
       IN  /\ AfterFile(r, applySuccess(history, placeholderId, details, Today))
           /\ lastOp' = "success"
           /\ results' = Append(results, "completed")

\* A slip: the failure of a file not caught inside the loop; processFiles ends
\* there, before setProcessedCount and setStatus.
ExtractionFailsAborting(r, message) ==
    /\ r \in 1..Len(runs)
    /\ LET placeholderId == runs[r].placeholders[runs[r].i]
       IN  history' = applyFailure(history, placeholderId, message)
    /\ runs' = [k \in 1..(Len(runs) - 1) |->
                   IF k < r THEN runs[k] ELSE runs[k + 1]]
    /\ lastOp' = "failure"
    /\ results' = Append(results, message)
    /\ UNCHANGED <<status, processedCount, totalCount, nOps, commitLog, filters,
                   sortConfig>>

ExtractionFails(r, message) ==
    /\ r \in 1..Len(runs)
    /\ LET placeholderId == runs[r].placeholders[runs[r].i]
       IN  /\ AfterFile(r, applyFailure(history, placeholderId, message))
           /\ lastOp' = "failure"
           /\ results' = Append(results, message)

\* A slip: the next list compared with the present by its content, not by
\* reference.
updatePassportIfChanged(id, field, value) ==
    /\ history' = setPassportsWithHistory(
                      history,
                      updatedListOf(history.present, id, field, value, Today),
                      updatedListOf(history.present, id, field, value, Today)
                          = history.present)
    /\ lastOp' = "edit"
    /\ UNCHANGED <<status, processedCount, totalCount, runs, results, filters,
                   sortConfig>>

\* updatePassport: the list it computes is a new array
updatePassport(id, field, value) ==
    /\ history' = setPassportsWithHistory(
                      history,
                      updatedListOf(history.present, id, field, value, Today),
                      FALSE)
    /\ lastOp' = "edit"
    /\ UNCHANGED <<status, processedCount, totalCount, runs, results, filters,
                   sortConfig>>

\* DetailEditor, onChange of a field of the record being edited
EditInEditor(id, field, value, B) ==
    /\ HasId(history.present, id)
    /\ nOps < B.ops
    /\ updatePassport(id, field, value)
    /\ nOps' = nOps + 1
    /\ Logged(B)

\* the value of a text input showing `shown` after one key
AfterKey(shown, key) ==
    IF key = "Backspace" THEN SubSeq(shown, 1, Len(shown) - 1)
    ELSE Append(shown, key)

\* PassportTable, onChange of a text cell: the input's new value, upper-cased.
\* A Backspace in an empty input changes nothing and raises no event.
TypeInTable(id, field, key, B) ==
    /\ HasId(history.present, id)
    /\ nOps < B.ops
    /\ LET item == FindById(history.present, id)
           shown == OrElse(GetField(item, field), <<>>)
       IN  /\ IF key = "Backspace" THEN shown # <<>> ELSE Len(shown) < B.len
           /\ updatePassport(id, field, toUpperCase(AfterKey(shown, key)))
    /\ nOps' = nOps + 1
    /\ Logged(B)

\* deletePassport: filter gives a new array
deletePassport(id, B) ==
    /\ HasId(history.present, id)
    /\ nOps < B.ops
    /\ history' = setPassportsWithHistory(
                      history, FilterOutId(history.present, id), FALSE)
    /\ lastOp' = "delete"
    /\ nOps' = nOps + 1
    /\ Logged(B)
    /\ UNCHANGED <<status, processedCount, totalCount, runs, results, filters,
                   sortConfig>>

\* onClear, confirmed: setPassportsWithHistory([]), a new array. The table, and
\* its clear button with it, is rendered only while the view has rows.
ClearManifest(B) ==
    /\ Len(history.present) > 0
    /\ nOps < B.ops
    /\ history' = setPassportsWithHistory(history, <<>>, FALSE)
    /\ lastOp' = "clear"
    /\ nOps' = nOps + 1
    /\ Logged(B)
    /\ UNCHANGED <<status, processedCount, totalCount, runs, results, filters,
                   sortConfig>>

\* Ctrl+Z, or the undo button
Undo(B) ==
    /\ Len(history.future) < B.back
    /\ history' = undo(history)
    /\ lastOp' = "undo"
    /\ UNCHANGED <<status, processedCount, totalCount, runs, nOps, commitLog,
                   results, filters,
                   sortConfig>>

\* Ctrl+Y, Ctrl+Shift+Z, or the redo button
Redo ==
    /\ history' = redo(history)
    /\ lastOp' = "redo"
    /\ UNCHANGED <<status, processedCount, totalCount, runs, nOps, commitLog,
                   results, filters,
                   sortConfig>>

\* what stays as it is when the sort configuration or the criteria are set
HistoryUntouched ==
    UNCHANGED <<history, status, processedCount, totalCount, runs, commitLog,
                results>>

\* A slip: the sorted view committed as the new present.
handleSortCommitting(key) ==
    /\ \E offset \in TimeZoneOffsets :
          Len(filteredAndSortedPassports(history.present, filters, sortConfig,
                                         offset)) > 0
    /\ sortConfig' = sortConfigAfter(sortConfig, key)
    /\ history' = setPassportsWithHistory(
                      history, sort(history.present, sortConfig'), FALSE)
    /\ lastOp' = "sort"
    /\ UNCHANGED <<status, processedCount, totalCount, runs, commitLog, results,
                   filters>>

\* handleSort, from a column header of the table; the table is rendered while
\* the view has rows
handleSort(key) ==
    /\ \E offset \in TimeZoneOffsets :
          Len(filteredAndSortedPassports(history.present, filters, sortConfig,
                                         offset)) > 0
    /\ sortConfig' = sortConfigAfter(sortConfig, key)
    /\ lastOp' = "sort"
    /\ HistoryUntouched
    /\ UNCHANGED filters

\* the select and the two date inputs of the filter panel, and its reset button
SetFilterField(field) ==
    /\ filters' = [filters EXCEPT !.field = field]
    /\ lastOp' = "filter"
    /\ HistoryUntouched
    /\ UNCHANGED sortConfig

SetStartDate(value) ==
    /\ filters' = [filters EXCEPT !.startDate = value]
    /\ lastOp' = "filter"
    /\ HistoryUntouched
    /\ UNCHANGED sortConfig

SetEndDate(value) ==
    /\ filters' = [filters EXCEPT !.endDate = value]
    /\ lastOp' = "filter"
    /\ HistoryUntouched
    /\ UNCHANGED sortConfig

ResetFilters ==
    /\ filters' = NoFilters
    /\ lastOp' = "filter"
    /\ HistoryUntouched
    /\ UNCHANGED sortConfig

\* a change of the sort configuration or of the criteria, counted in nOps
Counted(B) == nOps < B.ops /\ nOps' = nOps + 1

Sorts(B) == Counted(B) /\ \E key \in SortKeys : handleSort(key)

Filters(B) ==
    /\ Counted(B)
    /\ \/ \E field \in FilterFields : SetFilterField(field)
       \/ \E value \in DateInputValues : SetStartDate(value)
       \/ \E value \in DateInputValues : SetEndDate(value)
       \/ ResetFilters

\* the recognition service fails to read a file
FailsReading == \E r \in 1..Len(runs) : ExtractionFails(r, GeminiMessage)

SelectFiles(B) ==
    \E n \in 1..(B.ops - nOps) : \E ids \in [1..n -> Ids] : ProcessFiles(n, ids, B)

Succeeds == \E r \in 1..Len(runs) : \E d \in DetailsSet : ExtractionSucceeds(r, d)

SucceedsWith(D) ==
    \E r \in 1..Len(runs) : \E d \in D : ExtractionSucceeds(r, d)

Fails == \E r \in 1..Len(runs) : \E m \in Messages : ExtractionFails(r, m)

Edits(B) ==
    \E id \in Ids : \E e \in EditorInputs : EditInEditor(id, e[1], e[2], B)

EditsWith(I, B) ==
    \E id \in Ids : \E e \in I : EditInEditor(id, e[1], e[2], B)

Types(B) ==
    \E id \in Ids : \E f \in TypedFields : \E c \in B.keys :
        TypeInTable(id, f, c, B)

TypesInto(F, B) ==
    \E id \in Ids : \E f \in F : \E c \in B.keys : TypeInTable(id, f, c, B)

Deletes(B) == \E id \in Ids : deletePassport(id, B)

\* the wide exploration
Next ==
    \/ ProcessNoFiles
    \/ SelectFiles(Wide)
    \/ Succeeds
    \/ Fails
    \/ Edits(Wide)
    \/ Types(Wide)
    \/ Deletes(Wide)
    \/ ClearManifest(Wide)
    \/ Undo(Wide)
    \/ Redo

Spec == Init /\ [][Next]_vars

\* one file, its result, and a typing session
NextTyping ==
    \/ nOps = 0 /\ \E id \in Ids : ProcessFiles(1, <<id>>, Typing)
    \/ Succeeds
    \/ Fails
    \/ Types(Typing)

SpecTyping == Init /\ [][NextTyping]_vars

\* batches, and no user action between their files
NextBatch ==
    \/ SelectFiles(Batch)
    \/ SucceedsWith(BatchDetails)
    \/ Fails

SpecBatch == Init /\ [][NextBatch]_vars

\* one batch of two files, and edits of what the duplicate detector reads
NextDetector ==
    \/ nOps = 0 /\ \E ids \in [1..2 -> Ids] : ProcessFiles(2, ids, Detect)
    \/ SucceedsWith(BatchDetails)
    \/ Fails
    \/ EditsWith(DetectorInputs, Detect)

SpecDetector == Init /\ [][NextDetector]_vars

\* one file, and edits of what the calculator reads
NextAttributes ==
    \/ nOps = 0 /\ \E id \in Ids : ProcessFiles(1, <<id>>, Attr)
    \/ Succeeds
    \/ Fails
    \/ EditsWith(AttributeInputs, Attr)

SpecAttributes == Init /\ [][NextAttributes]_vars

\* one file, and edits of every kind of field of its record
NextEditor ==
    \/ nOps = 0 /\ \E id \in Ids : ProcessFiles(1, <<id>>, Editing)
    \/ SucceedsWith(BatchDetails)
    \/ Fails
    \/ EditsWith(EditorFieldInputs, Editing)
    \/ TypesInto(EditorTypedFields, Editing)

SpecEditor == Init /\ [][NextEditor]_vars

\* one batch of two files, and the sort configuration and the criteria changed
NextView ==
    \/ nOps = 0 /\ \E ids \in [1..2 -> Ids] : ProcessFiles(2, ids, Viewing)
    \/ SucceedsWith(ViewDetails)
    \/ FailsReading
    \/ Sorts(Viewing)
    \/ Filters(Viewing)

SpecView == Init /\ [][NextView]_vars

\* the recognition service answers every call
SpecLive == Init /\ [][Next]_vars /\ WF_vars(Succeeds \/ Fails)

-----------------------------------------------------------------------------
(* The exploration at the end of a typing session.                          *)

\* One file was selected, its extraction failed, and keys were typed into the
\* country of its record, "a" and Backspace in turn.  The present after k keys:
SessionPresent(k) ==
    LET failed == applyFailure(
                      [past |-> <<>>,
                       present |-> <<Placeholder(1, FileNameSeq[1])>>,
                       future |-> <<>>],
                      1, GeminiMessage).present
    IN  IF k = 0 THEN failed
        ELSE updatedListOf(failed, 1, "nationality",
                           toUpperCase(IF k % 2 = 1 THEN <<"a">> ELSE <<>>), Today)

\* and the history: the empty list, and the present before each key, trimmed
SessionHistory(k) ==
    [past |-> SliceLast(<<<<>>>> \o [j \in 1..k |-> SessionPresent(j - 1)],
                        HistoryDepth),
     present |-> SessionPresent(k),
     future |-> <<>>]

\* the state of the program then
DeepInit ==
    /\ history = SessionHistory(DeepStart)
    /\ status = "IDLE"
    /\ processedCount = 1
    /\ totalCount = 1
    /\ runs = <<>>
    /\ lastOp = "edit"
    /\ nOps = 1 + DeepStart
    /\ commitLog = <<>>
    /\ results = <<GeminiMessage>>
    /\ filters = NoFilters
    /\ sortConfig = [key |-> "lastName", order |-> "asc"]

\* that session, handler by handler
NextSession ==
    \/ nOps = 0 /\ ProcessFiles(1, <<1>>, Deep)
    \/ ExtractionFails(1, GeminiMessage)
    \/ /\ status = "IDLE"
       /\ nOps < 1 + DeepStart
       /\ TypeInTable(1, "nationality",
                      IF Truthy(history.present[1].nationality)
                      THEN "Backspace" ELSE "a",
                      Deep)

SpecSession == Init /\ [][NextSession]_vars

\* the session ends in the state DeepInit describes
SessionEndsInDeepInit == nOps = 1 + DeepStart => DeepInit

NextDeep ==
    \/ ProcessNoFiles
    \/ SelectFiles(Deep)
    \/ Succeeds
    \/ Fails
    \/ Edits(Deep)
    \/ Types(Deep)
    \/ Deletes(Deep)
    \/ ClearManifest(Deep)
    \/ Undo(Deep)
    \/ Redo

SpecDeep == DeepInit /\ [][NextDeep]_vars

-----------------------------------------------------------------------------
(* Properties of the history store.                                        *)

\* what a commit leaves in past: past with the present behind it, and of that
\* the newest HistoryDepth entries
PastAfterCommit(h) ==
    LET all == h.past \o <<h.present>>
        drop == IF Len(all) > HistoryDepth THEN Len(all) - HistoryDepth ELSE 0
    IN  [k \in 1..(Len(all) - drop) |-> all[k + drop]]

Committed(h, h2) == h2.past = PastAfterCommit(h) /\ h2.future = <<>>

\* snapshots handed to a commit
SomeSnapshots ==
    {<<>>, <<Placeholder(1, "a.jpg")>>,
     <<Placeholder(2, "b.jpg"), Placeholder(1, "a.jpg")>>}

C2_CommitContract ==
    /\ \A S \in SomeSnapshots \cup {history.present} :
          LET h2 == setPassportsWithHistory(history, S, FALSE)
          IN  /\ h2.present = S
              /\ Len(h2.past) = IF Len(history.past) < HistoryDepth
                                THEN Len(history.past) + 1 ELSE HistoryDepth
              /\ h2.past[Len(h2.past)] = history.present
              /\ \A k \in 1..(Len(h2.past) - 1) :
                    h2.past[k] = history.past[Len(history.past) - Len(h2.past) + 1 + k]
              /\ h2.future = <<>>
    /\ setPassportsWithHistory(history, history.present, TRUE) = history

\* a commit made with past full
C2_CommitAtDepth ==
    /\ lastOp = "clear"
    /\ history.present = <<>>
    /\ Len(history.past) = HistoryDepth

C4_PastBounded == Len(history.past) <= HistoryDepth

\* past full again after a redo
C4_FullAfterRedo ==
    /\ lastOp = "redo"
    /\ Len(history.past) = HistoryDepth
    /\ history.future = <<>>
    /\ Len(history.present) > 0

PairwiseDistinct(s) ==
    \A j, k \in 1..Len(s) : j # k => s[j] # s[k]

\* C5: after n commits from the empty history, past holds the presents found by
\* the newest min(n, 50) of them, in the order of the commits; with n = 51 the
\* initial snapshot alone is gone.
C5_OldestEvicted ==
    LET n == Len(commitLog)
        kept == IF n > HistoryDepth THEN HistoryDepth ELSE n
    IN  /\ Len(history.past) = kept
        /\ \A k \in 1..kept : history.past[k] = commitLog[n - kept + k]

\* 51 commits of pairwise distinct snapshots made
C5_FiftyOneCommits ==
    /\ Len(commitLog) = HistoryDepth + 1
    /\ commitLog[1] = <<>>
    /\ PairwiseDistinct(Append(commitLog, history.present))
    /\ Len(history.past) = HistoryDepth
    /\ history.past[1] = commitLog[2]

\* C6: an undo with past not empty makes the last snapshot of past the present,
\* takes it off past, and puts the old present in front of future, the rest of
\* future behind it unchanged.
C6_Undo ==
    [][(lastOp' = "undo" /\ Len(history.past) > 0)
       => /\ history'.present = history.past[Len(history.past)]
          /\ Len(history'.past) = Len(history.past) - 1
          /\ \A k \in 1..Len(history'.past) : history'.past[k] = history.past[k]
          /\ Len(history'.future) = Len(history.future) + 1
          /\ history'.future[1] = history.present
          /\ \A k \in 1..Len(history.future) :
                history'.future[k + 1] = history.future[k]]_vars

\* two undos in a row: the second put its present in front of the first's
C6_UndoneTwice ==
    /\ lastOp = "undo"
    /\ Len(history.future) = 2
    /\ history.future[1] # history.future[2]

\* C7: a redo with future not empty makes the first snapshot of future the
\* present, takes it off future, and puts the old present at the end of past,
\* the earlier entries of past unchanged.
C7_Redo ==
    [][(lastOp' = "redo" /\ Len(history.future) > 0)
       => /\ history'.present = history.future[1]
          /\ Len(history'.future) = Len(history.future) - 1
          /\ \A k \in 1..Len(history'.future) :
                history'.future[k] = history.future[k + 1]
          /\ Len(history'.past) = Len(history.past) + 1
          /\ history'.past[Len(history'.past)] = history.present
          /\ \A k \in 1..Len(history.past) : history'.past[k] = history.past[k]]_vars

\* one of two undone snapshots redone
C7_RedoneOne ==
    /\ lastOp = "redo"
    /\ Len(history.past) = 1
    /\ Len(history.future) = 1

\* C8: an undo with past empty and a redo with future empty leave past, present
\* and future as they were, and a selection of no files leaves the history,
\* processedCount, totalCount and status as they were.
C8_NoOps ==
    [][/\ (lastOp' = "undo" /\ Len(history.past) = 0) => history' = history
       /\ (lastOp' = "redo" /\ Len(history.future) = 0) => history' = history
       /\ lastOp' = "ingestEmpty"
          => /\ history' = history
             /\ processedCount' = processedCount
             /\ totalCount' = totalCount
             /\ status' = status]_vars

\* an undo with nothing to undo: after an undo that took a snapshot off past,
\* future is not empty
C8_NothingToUndo ==
    /\ lastOp = "undo"
    /\ history.past = <<>>
    /\ history.future = <<>>

\* C9: a selection of n >= 1 files puts n placeholders in front of the records
\* there were, in the order of the files, each with status processing and empty
\* firstName, lastName and passportNumber; the records there were follow in
\* their order; past gains the one snapshot found (and beyond 50 loses its
\* oldest), and future is empty.
C9_PlaceholdersOneCommit ==
    [][lastOp' = "ingest"
       => LET n == totalCount'
              before == history.present
              after == history'.present
          IN  /\ n >= 1
              /\ Len(after) = n + Len(before)
              /\ \A k \in 1..n :
                    /\ after[k].status = "processing"
                    /\ after[k].fileName = FileNameSeq[k]
                    /\ after[k].firstName = <<>>
                    /\ after[k].lastName = <<>>
                    /\ after[k].passportNumber = <<>>
              /\ \A k \in 1..Len(before) : after[n + k] = before[k]
              /\ history'.past = PastAfterCommit(history)
              /\ history'.future = <<>>]_vars

\* a file selected with a record there already
C9_PrependedToRecords ==
    /\ lastOp = "ingest"
    /\ Len(history.present) = 2
    /\ history.present[1].status = "processing"
    /\ history.present[2].status # "processing"

\* C10: at most one call of the recognition service is outstanding, and the call
\* for a file is issued only when the results of the files before it in the
\* batch have been applied: processedCount counts them.
C10_OneCallOutstanding ==
    /\ Len(runs) <= 1
    /\ \A r \in 1..Len(runs) :
          /\ status = "PROCESSING"
          /\ runs[r].i = processedCount + 1
          /\ runs[r].i <= totalCount

\* the call for the second file of a batch outstanding
C10_SecondCall ==
    /\ Len(runs) = 1
    /\ runs[1].i = 2
    /\ lastOp \in {"success", "failure"}

-----------------------------------------------------------------------------
(* Properties of the batch ingestion.                                      *)

UniqueIds(list) ==
    \A j, k \in 1..Len(list) : j # k => list[j].id # list[k].id

\* the last file of a batch has had its result applied
BatchEnded == status = "IDLE" /\ lastOp \in {"success", "failure"}

\* C11: when a batch of n files ends, no user action having come between, the
\* snapshot holds the n records of the batch, the record of each file that
\* succeeded is completed, the record of each file that failed is error with
\* the message of its failure, and processedCount is n.
C11_FailuresDoNotAbort ==
    BatchEnded
    => LET n == Len(results)
       IN  /\ n = totalCount
           /\ processedCount = n
           /\ Len(history.present) >= n
           /\ \A k \in 1..n :
                 LET p == history.present[k]
                 IN  /\ p.fileName = FileNameSeq[k]
                     /\ results[k] = "completed" => p.status = "completed"
                     /\ results[k] # "completed"
                        => p.status = "error" /\ p.errorMessage = results[k]

\* C12: within a batch processedCount never decreases: it is 0 when the batch
\* starts, each result advances it by exactly one, to the number of the file
\* whose result was just applied and never beyond totalCount, and nothing else
\* changes it.
C12_CountedInOrder ==
    [][/\ lastOp' = "ingest" => processedCount' = 0 /\ totalCount' > 0
       /\ lastOp' \in {"success", "failure"}
          => /\ processedCount' = processedCount + 1
             /\ processedCount' = runs[1].i
             /\ processedCount' = Len(results')
             /\ processedCount' <= totalCount
             /\ totalCount' = totalCount
       /\ lastOp' \notin {"ingest", "success", "failure"}
          => processedCount' = processedCount /\ totalCount' = totalCount]_vars

\* the second of two files counted, the batch's commit undone meanwhile
C12_SecondFileCounted ==
    /\ lastOp \in {"success", "failure"}
    /\ processedCount = 2
    /\ totalCount = 2
    /\ Len(history.future) = 1

\* C13: provided the recognition service answers every call, a batch that has
\* started eventually has processedCount = totalCount and status idle, whatever
\* the user does meanwhile.
C13_BatchTerminates ==
    (status = "PROCESSING") ~> (status = "IDLE" /\ processedCount = totalCount)

\* a batch of two files over, its first file having failed
C13_EndedAfterFailure ==
    /\ status = "IDLE"
    /\ processedCount = totalCount
    /\ Len(results) = 2
    /\ results[1] # "completed"

\* C14: a record's status leaves processing at most once: a record that is
\* completed or error is, for as long as it is in the snapshot, never processing
\* again and never of the other of the two, whatever is interleaved, undo and
\* redo included.  Stated of the steps between snapshots whose ids are pairwise
\* distinct.
C14_SettledOnce ==
    [][(UniqueIds(history.present) /\ UniqueIds(history'.present))
       => \A j \in 1..Len(history.present) : \A k \in 1..Len(history'.present) :
             (/\ history.present[j].id = history'.present[k].id
              /\ history.present[j].status \in {"completed", "error"})
             => history'.present[k].status = history.present[j].status]_vars

\* what C15 says the record p becomes when the service returns d, the snapshot
\* being list when the result is applied
SucceededRecord(p, d, list) ==
    LET derived == deriveAttributes(
                       IF Truthy(d.dateOfBirth) THEN d.dateOfBirth ELSE <<>>,
                       IF Truthy(d.gender) THEN d.gender ELSE <<>>, Today)
    IN  [id |-> p.id, fileName |-> p.fileName, errorMessage |-> p.errorMessage,
         firstName |-> d.firstName, lastName |-> d.lastName,
         passportNumber |-> d.passportNumber, nationality |-> d.nationality,
         gender |-> d.gender, dateOfBirth |-> d.dateOfBirth,
         issueDate |-> d.issueDate, expiryDate |-> d.expiryDate,
         title |-> IF Truthy(d.title) THEN d.title ELSE derived.title,
         passengerType |-> derived.passengerType,
         status |-> "completed",
         isDuplicate |-> BoolStr(checkIsDuplicate(d, p.id, list))]

\* C15: when the extraction of a file succeeds, the record with the file's
\* placeholder id gets the returned fields, status completed, the passengerType
\* derived from the returned dateOfBirth and gender, the service's title when
\* there is one and the derived title otherwise, and isDuplicate as the detector
\* gives it on the present of the moment the result is applied, the record
\* itself excluded; the other records stay as they are.
C15_SuccessApplied ==
    [][lastOp' = "success"
       => \E d \in BatchDetails :
             LET id == runs[1].placeholders[runs[1].i]
                 prev == history.present
             IN  /\ Len(history'.present) = Len(prev)
                 /\ \A k \in 1..Len(prev) :
                       history'.present[k] =
                           IF prev[k].id = id
                           THEN SucceededRecord(prev[k], d, prev)
                           ELSE prev[k]]_vars

\* the second file of a batch completed with the title the service read, and
\* found a duplicate of the first, which completed after the batch started
C15_DuplicateOfSibling ==
    /\ lastOp = "success"
    /\ Len(results) = 2
    /\ Len(history.past) = 1
    /\ Len(history.present) = 2
    /\ history.present[1].status = "completed"
    /\ history.present[1].isDuplicate = "false"
    /\ history.present[2].status = "completed"
    /\ history.present[2].isDuplicate = "true"
    /\ history.present[2].title = MRS
    /\ history.present[2].passengerType = ADULT

\* C16: in every state every completed record's isDuplicate is what the
\* detector gives for it against the present, the record itself excluded, also
\* after a sibling was edited, completed or deleted.  Stated of the snapshots
\* whose ids are pairwise distinct.
C16_FlagsCurrent ==
    UniqueIds(history.present)
    => \A k \in 1..Len(history.present) :
          LET r == history.present[k]
          IN  r.status = "completed"
              => r.isDuplicate = BoolStr(checkIsDuplicate(r, r.id, history.present))

-----------------------------------------------------------------------------
(* Properties of the duplicate detector.                                   *)

\* the detector run with candidate a against b alone
Flags(a, b) == checkIsDuplicate(a, a.id, <<b>>)

\* C17: duplicate detection is symmetric: of two distinct completed records of
\* a snapshot, the one flags the other if and only if the other flags the one,
\* whether their passport numbers and names are filled, empty, missing or blank.
C17_Symmetric ==
    \A j, k \in 1..Len(history.present) :
        LET a == history.present[j]
            b == history.present[k]
        IN  (j # k /\ a.status = "completed" /\ b.status = "completed")
            => (Flags(a, b) <=> Flags(b, a))

\* two completed records flag each other, the passport number of one padded and
\* in lower case, a first name emptied
C17_PaddedFlagsPlain ==
    \E j, k \in 1..Len(history.present) :
        LET a == history.present[j]
            b == history.present[k]
        IN  /\ a.id # b.id
            /\ a.status = "completed" /\ b.status = "completed"
            /\ a.passportNumber = <<"p", "1", " ">>
            /\ b.passportNumber = <<"P", "1">>
            /\ b.firstName = <<>>
            /\ Flags(a, b) /\ Flags(b, a)

\* a value that is there: neither missing nor the empty string
Has(value) == value # Undef /\ value # <<>>

\* a value trimmed and upper-cased
Normal(value) == toUpperCase(trim(value))

\* what C18 says the detector returns
DetectorContract(candidate, excludeId, snapshot) ==
    IF ~Has(candidate.passportNumber)
       /\ ~(Has(candidate.firstName) /\ Has(candidate.lastName))
    THEN FALSE
    ELSE \E k \in 1..Len(snapshot) :
            LET other == snapshot[k]
            IN  /\ other.id # excludeId
                /\ other.status \notin {"pending", "processing", "error"}
                /\ \/ /\ Has(candidate.passportNumber)
                      /\ Has(other.passportNumber)
                      /\ Normal(other.passportNumber)
                            = Normal(candidate.passportNumber)
                   \/ /\ Has(candidate.firstName) /\ Has(other.firstName)
                      /\ Has(candidate.lastName) /\ Has(other.lastName)
                      /\ Normal(other.firstName) = Normal(candidate.firstName)
                      /\ Normal(other.lastName) = Normal(candidate.lastName)

\* C18: for every candidate, excluded id and snapshot the detector returns false
\* when the candidate has no passport number and lacks a first or a last name,
\* and otherwise true exactly when a completed record of another id has the
\* candidate's passport number, or both its names, after trimming and
\* upper-casing; a value counts as had when it is neither missing nor empty.
\* Candidates are the records of the present, of any status.
C18_DetectorContract ==
    \A j \in 1..Len(history.present) : \A excludeId \in Ids :
        checkIsDuplicate(history.present[j], excludeId, history.present)
            = DetectorContract(history.present[j], excludeId, history.present)

\* a completed record whose only likeness is a record in error: no match
C18_ErrorNeverMatches ==
    /\ Len(history.present) = 2
    /\ history.present[1].id # history.present[2].id
    /\ history.present[1].status = "completed"
    /\ history.present[1].passportNumber = <<"P", "1">>
    /\ history.present[2].status = "error"
    /\ history.present[2].passportNumber = <<"p", "1", " ">>
    /\ ~checkIsDuplicate(history.present[1], history.present[1].id,
                         history.present)

-----------------------------------------------------------------------------
(* Properties of the derived attribute calculator.                         *)

\* a component made of digits
IsNumber(part) == part # <<>> /\ \A k \in 1..Len(part) : IsDigit(part[k])

\* a date of birth of three numeric components
IsNumericDate(dob) ==
    /\ dob # Undef
    /\ Len(split(dob, "/")) = 3
    /\ \A k \in 1..3 : IsNumber(split(dob, "/")[k])

\* current year minus birth year, less one when the current month and day
\* precede the month and day of birth
ClaimedAge(day, month, year) ==
    IF \/ Today.month + 1 < month
       \/ Today.month + 1 = month /\ Today.date < day
    THEN Today.year - year - 1
    ELSE Today.year - year

\* the classes and titles C19 gives
ClaimedOfAge(age, isMale) ==
    [title |-> IF age < 2 THEN (IF isMale THEN MSTR ELSE MISS)
               ELSE IF isMale THEN MR
               ELSE IF age > 30 THEN MRS ELSE MS,
     passengerType |-> IF age < 2 THEN INFANT
                       ELSE IF age < 12 THEN CHILD
                       ELSE ADULT]

ClaimedAttributes(dob, gender) ==
    ClaimedOfAge(ClaimedAge(parseInt(split(dob, "/")[1]).v,
                            parseInt(split(dob, "/")[2]).v,
                            parseInt(split(dob, "/")[3]).v),
                 gender # Undef /\ toUpperCase(gender) = MALE)

\* C19: for a date of birth of three numeric components and any gender the
\* calculator takes the age to be the current year minus the year of birth, less
\* one when the current month and day precede those of birth, and returns INFANT
\* below 2 (MSTR for MALE, else MISS), CHILD from 2 and below 12, ADULT from 12
\* (MR for MALE, else MRS above 30, else MS): 2 is CHILD and 12 is ADULT.
\* Stated of the date of birth of every record with each gender, and of the
\* title and passengerType of every completed record.
C19_AgeClasses ==
    \A k \in 1..Len(history.present) :
        LET r == history.present[k]
        IN  IsNumericDate(r.dateOfBirth)
            => /\ \A gender \in {MALE, FEMALE, <<>>, Undef} :
                     deriveAttributes(r.dateOfBirth, gender, Today)
                         = ClaimedAttributes(r.dateOfBirth, gender)
               /\ r.status = "completed"
                  => /\ r.title = ClaimedAttributes(r.dateOfBirth, r.gender).title
                     /\ r.passengerType
                           = ClaimedAttributes(r.dateOfBirth, r.gender).passengerType

\* a date of birth that is empty, or not of three components
IsNoDate(dob) == dob = <<>> \/ Len(split(dob, "/")) # 3

\* C20: for a date of birth that is empty or does not split on "/" into exactly
\* three components, and any gender, the calculator returns the title "" and
\* the passengerType ADULT.  Stated of the date of birth of every record with
\* each gender, and of the title and passengerType of every completed record.
C20_NoDateIsAdult ==
    \A k \in 1..Len(history.present) :
        LET r == history.present[k]
            dob == IF r.dateOfBirth = Undef THEN <<>> ELSE r.dateOfBirth
        IN  IsNoDate(dob)
            => /\ \A gender \in {MALE, FEMALE, <<>>, Undef} :
                     deriveAttributes(dob, gender, Today)
                         = [title |-> <<>>, passengerType |-> ADULT]
               /\ r.status = "completed"
                  => r.title = <<>> /\ r.passengerType = ADULT

\* a completed record given a date of birth of four components
C20_FourComponents ==
    \E k \in 1..Len(history.present) :
        /\ history.present[k].status = "completed"
        /\ history.present[k].gender = FEMALE
        /\ Len(split(history.present[k].dateOfBirth, "/")) = 4
        /\ history.present[k].title = <<>>
        /\ history.present[k].passengerType = ADULT

-----------------------------------------------------------------------------
(* Properties of the edits.                                                *)

\* the fields updatePassport is called with
FieldNames ==
    {"passengerType", "title", "firstName", "lastName", "passportNumber",
     "nationality", "gender", "dateOfBirth", "issueDate", "expiryDate"}

\* q is p after an edit of field, as C21 has it
EditedAsClaimed(p, q, field) ==
    /\ q.id = p.id /\ q.fileName = p.fileName /\ q.status = p.status
    /\ q.errorMessage = p.errorMessage
    /\ \A g \in FieldNames \ {field, "title", "passengerType"} :
          GetField(q, g) = GetField(p, g)
    /\ IF field \in {"dateOfBirth", "gender"}
       THEN LET derived ==
                    deriveAttributes(
                        IF Truthy(q.dateOfBirth) THEN q.dateOfBirth ELSE <<>>,
                        IF Truthy(q.gender) THEN q.gender ELSE <<>>, Today)
            IN  q.title = derived.title /\ q.passengerType = derived.passengerType
       ELSE /\ field # "title" => q.title = p.title
            /\ field # "passengerType" => q.passengerType = p.passengerType

\* C21: an edit of dateOfBirth or gender overwrites the record's title and
\* passengerType with the values derived from its updated dateOfBirth and
\* gender, whatever title the user or the service had set; an edit of another
\* field leaves the title and the passengerType as they were, unless it is the
\* field edited.
C21_EditDerives ==
    [][lastOp' = "edit"
       => \E id \in Ids : \E field \in FieldNames :
             /\ Len(history'.present) = Len(history.present)
             /\ \A k \in 1..Len(history.present) :
                   IF history.present[k].id = id
                   THEN EditedAsClaimed(history.present[k], history'.present[k],
                                        field)
                   ELSE history'.present[k] = history.present[k]]_vars

\* the title the service read, MRS, replaced by MR when the gender was edited
C21_ServiceTitleDiscarded ==
    /\ lastOp = "edit"
    /\ Len(history.present) = 1
    /\ Len(history.past) = 2
    /\ history.past[2][1].title = MRS
    /\ history.past[2][1].gender = FEMALE
    /\ history.present[1].gender = MALE
    /\ history.present[1].title = MR
    /\ history.present[1].passengerType = ADULT

-----------------------------------------------------------------------------
(* Properties of the view.                                                 *)

\* the view where the local clock is offset minutes ahead of UTC
ViewAt(offset) ==
    filteredAndSortedPassports(history.present, filters, sortConfig, offset)

InView(p, offset) == \E j \in 1..Len(ViewAt(offset)) : ViewAt(offset)[j] = p

\* the calendar day of a DD/MM/YYYY value and of a YYYY-MM-DD bound, as days
\* since 1970-01-01
DayOfValue(value) ==
    DaysFromCivil(parseInt(split(value, "/")[3]).v,
                  parseInt(split(value, "/")[2]).v - 1,
                  parseInt(split(value, "/")[1]).v)

DayOfBound(bound) ==
    DaysFromCivil(parseInt(split(bound, "-")[1]).v,
                  parseInt(split(bound, "-")[2]).v - 1,
                  parseInt(split(bound, "-")[3]).v)

\* the value lies on a bound of the range, and within the range
OnBound(value, criteria) ==
    /\ \/ Has(criteria.startDate)
          /\ DayOfValue(value) = DayOfBound(criteria.startDate)
       \/ Has(criteria.endDate)
          /\ DayOfValue(value) = DayOfBound(criteria.endDate)
    /\ Has(criteria.startDate)
       => DayOfBound(criteria.startDate) <= DayOfValue(value)
    /\ Has(criteria.endDate)
       => DayOfValue(value) <= DayOfBound(criteria.endDate)

\* C22: with a range active, a record whose filtered date is exactly the start
\* date or exactly the end date is in the view, wherever the local clock stands
\* against UTC.
C22_BoundsInclusive ==
    \A offset \in TimeZoneOffsets : \A k \in 1..Len(history.present) :
        LET p == history.present[k]
        IN  (/\ IsNumericDate(GetField(p, filters.field))
             /\ OnBound(GetField(p, filters.field), filters))
            => InView(p, offset)

\* a value that is no DD/MM/YYYY date: absent, empty, or not three numbers
IsUnparsed(value) == ~Has(value) \/ ~IsNumericDate(value)

\* C23: filtering is active exactly when startDate or endDate is set; when it
\* is active, every record whose filtered value is absent, empty or no
\* DD/MM/YYYY date, three parts that are no numbers included, is out of the
\* view; when it is not, every record of the present is in the view.
C23_UnparsedExcluded ==
    \A offset \in TimeZoneOffsets :
        IF Has(filters.startDate) \/ Has(filters.endDate)
        THEN \A k \in 1..Len(history.present) :
                IsUnparsed(GetField(history.present[k], filters.field))
                => ~InView(history.present[k], offset)
        ELSE /\ Len(ViewAt(offset)) = Len(history.present)
             /\ \A k \in 1..Len(history.present) :
                   InView(history.present[k], offset)

\* the string C24 orders by: the field's value, "" when missing, upper-cased
ClaimedKey(p, key) ==
    toUpperCase(IF Has(GetField(p, key)) THEN GetField(p, key) ELSE <<>>)

\* view holds the records of filtered, the one at place i from place perm[i]
PermutedBy(view, filtered, perm) ==
    /\ \A i, j \in 1..Len(filtered) : i # j => perm[i] # perm[j]
    /\ \A i \in 1..Len(filtered) : view[i] = filtered[perm[i]]

\* ordered by the key, equal keys in the order they came in
OrderedBy(view, perm, config) ==
    \A i, j \in 1..Len(view) :
        i < j
        => /\ config.order = "asc"
              => ~StringLess(ClaimedKey(view[j], config.key),
                             ClaimedKey(view[i], config.key))
           /\ config.order = "desc"
              => ~StringLess(ClaimedKey(view[i], config.key),
                             ClaimedKey(view[j], config.key))
           /\ ClaimedKey(view[i], config.key) = ClaimedKey(view[j], config.key)
              => perm[i] < perm[j]

\* C24: with a sort key set, the view is a permutation of the filtered records
\* ordered by the upper-cased string of that field, a missing value counting as
\* the empty string, ascending for asc and descending for desc, and records of
\* equal keys keep their order from the snapshot in both orders.
C24_SortedStably ==
    \A offset \in TimeZoneOffsets :
        LET filtered == Filtered(history.present, filters, offset)
        IN  /\ Len(ViewAt(offset)) = Len(filtered)
            /\ \E perm \in [1..Len(filtered) -> 1..Len(filtered)] :
                  /\ PermutedBy(ViewAt(offset), filtered, perm)
                  /\ OrderedBy(ViewAt(offset), perm, sortConfig)

\* two records of one last name in snapshot order, the order being desc
C24_TieKeptDescending ==
    /\ sortConfig = [key |-> "lastName", order |-> "desc"]
    /\ Len(history.present) = 2
    /\ history.present[1].lastName = <<"Z">>
    /\ history.present[2].lastName = <<"Z">>
    /\ history.present[1] # history.present[2]
    /\ ViewAt(0) = history.present

\* the other order
Flip(order) == IF order = "asc" THEN "desc" ELSE "asc"

\* C25: a click on the key that is the sort key flips the order; a click on
\* another key makes it the sort key with the order asc, whatever the order was.
C25_ClickedKey ==
    [][lastOp' = "sort"
       => /\ sortConfig'.key \in SortKeys
          /\ sortConfig'.key = sortConfig.key
             => sortConfig'.order = Flip(sortConfig.order)
          /\ sortConfig'.key # sortConfig.key => sortConfig'.order = "asc"]_vars

\* sorted by the expiry date ascending after two clicks
C25_OtherKeyAscending ==
    /\ lastOp = "sort"
    /\ nOps = 4
    /\ filters = NoFilters
    /\ sortConfig = [key |-> "expiryDate", order |-> "asc"]

\* C26: changing the sort configuration or the filter criteria, and computing
\* the view, leave past, present and future as they are: the present keeps its
\* records and their order, and no history entry is made.
C26_ViewReadOnly ==
    [][lastOp' \in {"sort", "filter"} => history' = history]_vars

\* a view in another order than the present, and only the batch in past
C26_SortedViewOnly ==
    /\ lastOp = "sort"
    /\ Len(history.past) = 1
    /\ Len(history.present) = 2
    /\ Len(ViewAt(0)) = 2
    /\ ViewAt(0) # history.present

(***************************************************************************)
(* Invariants of the records.                                              *)
(***************************************************************************)

\* the snapshots of the history: past, present and future
Snapshots ==
    {history.past[k] : k \in 1..Len(history.past)}
        \cup {history.present}
        \cup {history.future[k] : k \in 1..Len(history.future)}

\* C27: no two records of a snapshot, be it the present, one of past or one of
\* future, have the same id.
C27_IdsUnique == \A list \in Snapshots : UniqueIds(list)

\* the record has an errorMessage property
HasErrorMessage(p) == p.errorMessage # "undefined"

\* C28: every record of the present that carries an errorMessage has status
\* error; a processing or completed record carries none.
C28_MessageOnlyOnError ==
    \A k \in 1..Len(history.present) :
        HasErrorMessage(history.present[k])
        => history.present[k].status = "error"

\* the value is a string of at least one character
IsNonEmptyString(value) == value # Undef /\ Len(value) > 0

\* C29: every completed record of the present has a non-empty firstName and a
\* non-empty lastName.
C29_CompletedHasNames ==
    \A k \in 1..Len(history.present) :
        history.present[k].status = "completed"
        => /\ IsNonEmptyString(history.present[k].firstName)
           /\ IsNonEmptyString(history.present[k].lastName)

\* the value, when it is a string, has no letter in lower case
IsUpperCased(value) == value = Undef \/ value = toUpperCase(value)

\* C30: firstName, lastName and passportNumber of every record of the present
\* are stored upper-cased.
C30_StoredUpperCased ==
    \A k \in 1..Len(history.present) :
        /\ IsUpperCased(history.present[k].firstName)
        /\ IsUpperCased(history.present[k].lastName)
        /\ IsUpperCased(history.present[k].passportNumber)

-----------------------------------------------------------------------------
(* The history as a whole.                                                 *)

\* past after a step: as it was, with the present pushed (the oldest evicted at
\* the cap), or with its newest snapshot popped
PastKept ==
    \/ history'.past = history.past
    \/ history'.past = SliceLast(Append(history.past, history.present),
                                 HistoryDepth)
    \/ history'.past = Append(history.past, history.present)
    \/ /\ Len(history.past) > 0
       /\ history'.past = SubSeq(history.past, 1, Len(history.past) - 1)
       /\ history'.present = history.past[Len(history.past)]

\* future after a step: as it was, cleared, with the present pushed in front, or
\* with its first snapshot popped
FutureKept ==
    \/ history'.future = history.future
    \/ history'.future = <<>>
    \/ history'.future = <<history.present>> \o history.future
    \/ /\ Len(history.future) > 0
       /\ history'.future = Tail(history.future)
       /\ history'.present = history.future[1]

\* C31: a snapshot in past or future keeps its content and the order of its
\* records under every later operation: a step only pushes the present onto
\* past or future, pops a snapshot into the present, evicts the oldest of past
\* or clears future.
C31_SnapshotsImmutable == [][PastKept /\ FutureKept]_vars

\* a result was applied to the record in the present while past held the record
\* as a placeholder, and holds it so still
C31_ResultBesideSnapshots ==
    /\ lastOp \in {"success", "failure"}
    /\ \E k \in 1..Len(history.past) : \E j \in 1..Len(history.past[k]) :
           /\ history.past[k][j].status = "processing"
           /\ \E i \in 1..Len(history.present) :
                  /\ history.present[i].id = history.past[k][j].id
                  /\ history.present[i].status # "processing"

-----------------------------------------------------------------------------
(* The frame of the operations on one record.                              *)

\* the list without its k-th record
WithoutIndex(list, k) ==
    [j \in 1..(Len(list) - 1) |-> IF j < k THEN list[j] ELSE list[j + 1]]

\* the positions at which the two lists, of one length, differ
ChangedIn(before, after) == {k \in 1..Len(before) : after[k] # before[k]}

\* C32: an edit, a success and a failure change one record of the present, the
\* one with the target id, and leave every other record, the number of records
\* and their order as they were; a delete removes one record, the one with the
\* target id, and leaves the others as they were and in their order.
C32_OnlyTargetChanges ==
    [][/\ lastOp' \in {"edit", "success", "failure"}
          => /\ Len(history'.present) = Len(history.present)
             /\ Cardinality(ChangedIn(history.present, history'.present)) <= 1
             /\ \A k \in 1..Len(history.present) :
                    history'.present[k].id = history.present[k].id
       /\ lastOp' = "delete"
          => \E k \in 1..Len(history.present) :
                 history'.present = WithoutIndex(history.present, k)]_vars

-----------------------------------------------------------------------------
(* Dates of birth that are no dates.                                       *)

\* day, month and year name a day of the calendar: the Date made of them has
\* that day, month and year
IsCalendarDay(day, month, year, made) ==
    /\ ~made.nan
    /\ made.year = year /\ made.month = month - 1 /\ made.date = day

\* the three numeric components are a DD/MM/YYYY date
IsCalendarParts(parts) ==
    /\ Len(parts[3]) = 4
    /\ IsCalendarDay(parseInt(parts[1]).v, parseInt(parts[2]).v,
                     parseInt(parts[3]).v,
                     NewDate(parseInt(parts[3]), MinusOne(parseInt(parts[2])),
                             parseInt(parts[1])))

\* a valid DD/MM/YYYY date
IsValidDate(dob) == IsNumericDate(dob) /\ IsCalendarParts(split(dob, "/"))

\* C33: for every date of birth that is no valid DD/MM/YYYY date, three
\* components that are no numbers included, and every gender, the calculator
\* returns the title "" and the passengerType ADULT.  Stated of the date of
\* birth of every record of the present.
C33_InvalidDateDisables ==
    \A k \in 1..Len(history.present) :
        LET dob == history.present[k].dateOfBirth
        IN  (dob # Undef /\ ~IsValidDate(dob))
            => \A gender \in {MALE, FEMALE, <<>>, Undef} :
                   deriveAttributes(dob, gender, Today) = NoBirthDate

-----------------------------------------------------------------------------
(* Undo and redo as inverses.                                              *)

\* the number of snapshots beside the present
Beside(h) == Len(h.past) + Len(h.future)

\* C34: in every reachable state with past not empty an undo and then a redo
\* give back past, present and future, with future not empty a redo and then
\* an undo give them back, and an undo and a redo each keep the sum of the
\* lengths of past and future.
C34_UndoRedoInverse ==
    /\ Len(history.past) > 0 => redo(undo(history)) = history
    /\ Len(history.future) > 0 => undo(redo(history)) = history
    /\ Beside(undo(history)) = Beside(history)
    /\ Beside(redo(history)) = Beside(history)

\* an undo and then a redo, in a history with snapshots on both sides and the
\* three of them different
C34_RedoneBetweenSnapshots ==
    /\ lastOp = "redo"
    /\ Len(history.past) > 0
    /\ Len(history.future) > 0
    /\ history.past[Len(history.past)] # history.present
    /\ history.future[1] # history.present
    /\ history.future[1] # history.past[Len(history.past)]

-----------------------------------------------------------------------------
(* The counters and the status of the pipeline.                            *)

\* C35: processedCount is at least 0 and at most totalCount; the status is IDLE
\* exactly when the two are equal, at the start and after the last file of each
\* batch, and PROCESSING exactly while processedCount is below totalCount.
C35_StatusFollowsCount ==
    /\ 0 <= processedCount /\ processedCount <= totalCount
    /\ status = "IDLE" <=> processedCount = totalCount
    /\ status = "PROCESSING" <=> processedCount < totalCount

\* the first of two files of a second batch counted
C35_SecondBatchUnderWay ==
    /\ status = "PROCESSING"
    /\ processedCount = 1
    /\ totalCount = 2
    /\ Len(history.present) = 3

\* C36: whenever the status is IDLE no record of the present has the status
\* processing, whatever undos, redos, edits and deletes came between the
\* results of a batch.
C36_IdleHasNoPlaceholder ==
    status = "IDLE"
    => \A k \in 1..Len(history.present) :
           history.present[k].status # "processing"

\* the ids of the records, in their order
IdsOf(list) == [k \in 1..Len(list) |-> list[k].id]

\* C37: applying the result of a file adds no record to the present and removes
\* none; when the present holds no record with the id of the file's placeholder
\* the present stays as it is, and processedCount advances all the same.
C37_ResultKeepsRecords ==
    [][lastOp' \in {"success", "failure"}
       => /\ IdsOf(history'.present) = IdsOf(history.present)
          /\ ~HasId(history.present, runs[1].placeholders[runs[1].i])
             => history'.present = history.present
          /\ processedCount' = processedCount + 1]_vars

\* the result of the only file of a batch arrived after its record was deleted:
\* the present is empty still, and the file is counted
C37_ResultDropped ==
    /\ lastOp \in {"success", "failure"}
    /\ history.present = <<>>
    /\ Len(history.past) = 2
    /\ processedCount = 1
    /\ totalCount = 1

-----------------------------------------------------------------------------
(* Edits and deletes that change nothing.                                  *)

\* the history after a commit: the old present pushed onto past, the oldest
\* entry evicted at the cap, and future cleared
Pushed(prev, nextPresent) ==
    [past |-> SliceLast(Append(prev.past, prev.present), HistoryDepth),
     present |-> nextPresent,
     future |-> <<>>]

\* a delete and an edit of a record that the present does not hold: the next
\* list equals the present and is committed all the same
AbsentIdCommits ==
    \A id \in Ids :
        ~HasId(history.present, id)
        => /\ FilterOutId(history.present, id) = history.present
           /\ setPassportsWithHistory(
                  history, FilterOutId(history.present, id), FALSE)
                = Pushed(history, history.present)
           /\ \A e \in EditorInputs :
                  /\ updatedListOf(history.present, id, e[1], e[2], Today)
                       = history.present
                  /\ setPassportsWithHistory(
                         history,
                         updatedListOf(history.present, id, e[1], e[2], Today),
                         FALSE)
                       = Pushed(history, history.present)

\* C38: an edit and a delete always make a history entry: the old present is
\* pushed onto past and future is cleared, also when the edit writes the value
\* the field has and the next present equals the old one, and also for an id
\* that no record of the present has.
C38_AlwaysAnEntry ==
    [][/\ lastOp' \in {"edit", "delete"}
          => history' = Pushed(history, history'.present)
       /\ AbsentIdCommits']_vars

\* an edit wrote the value the field had: the entry it made holds the present
C38_EntryOfNoChange ==
    /\ lastOp = "edit"
    /\ Len(history.past) > 0
    /\ history.past[Len(history.past)] = history.present
    /\ Len(history.present) > 0

====
